---- MODULE Spec2Model ----
(***************************************************************************)
(* A model of src/SpotGPS.py: class MapMeClass.                            *)
(*                                                                         *)
(* A MapMeClass object is built from a Google location-history document    *)
(* (__init__: _ReadJson, _DeriveTimeIntervals, _FixLatLong), and then      *)
(* offers Filter, ClearFilter and PlotMap.  The pandas and plotly calls    *)
(* the class makes are modelled by what they do to the values the class    *)
(* holds: a DataFrame is a set of column names and a sequence of rows,     *)
(* each row carrying its index label; .loc[mask, :] builds a new frame.    *)
(*                                                                         *)
(* Numbers.  TLC's integers are 32 bits wide, so an epoch-millisecond      *)
(* timestamp t is held as the pair (s, ms) with t = 1000*s + ms and        *)
(* 0 <= ms < 1000, and a coordinate is held as the exact fraction of num   *)
(* over the product of the divisors in den (floating-point rounding of the *)
(* division is not modelled).                                              *)
(* The column timestamp_fixed (line 49), which no other line reads, is     *)
(* not modelled.                                                           *)
(***************************************************************************)
EXTENDS Integers, Sequences, FiniteSets, TLC

VARIABLES
    doc,           \* the input document at `filepath` (never changes)
    pc,            \* "start": not constructed; "ready": the caller holds the object;
                   \* "failed": __init__ raised, the caller holds nothing
    frames,        \* the DataFrame objects alive: object id -> frame
    data,          \* self.data: an object id (0: attribute not set)
    originaldata,  \* self._originaldata: an object id (0: attribute not set)
    fig,           \* self.fig
    scatterdata,   \* self.scatterdata
    layout,        \* self.layout
    last           \* the last call made on the object: its name, the
                   \* exception it raised and the value it returned

vars == <<doc, pc, frames, data, originaldata, fig, scatterdata, layout, last>>

-----------------------------------------------------------------------------
(* Bounds of the model.                                                    *)

\* Construction is checked on every document of up to MaxRecords records
\* drawn from every kind of raw record.
MaxRecords == 3
\* The calls are checked on the well-formed documents of up to MaxLong
\* pairwise different records, and on the documents of up to MaxShort
\* records of any kind.
MaxLong == 5
MaxShort == 1
\* Every boolean array of up to MaxMaskLen elements, and every boolean Series
\* over index labels below MaxMaskLen, is a Filter input.
MaxMaskLen == 1

-----------------------------------------------------------------------------
(* Values.                                                                 *)

\* pandas' NaN in a coordinate column.
NaNCoord == [nan |-> TRUE, num |-> 0, den |-> <<>>]
\* The integer n, not yet divided by anything.
Coord(n) == [nan |-> FALSE, num |-> n, den |-> <<>>]

\* A raw timestampMs: the number 1000*s + ms ("num", given as an integer or
\* as a numeric string), a non-numeric string ("str"), or absent ("nan").
Ms(s, ms) == [kind |-> "num", s |-> s, ms |-> ms]
BadTs == [kind |-> "str", s |-> 0, ms |-> 0]
NoTs == [kind |-> "nan", s |-> 0, ms |-> 0]

\* A cell of a derived calendar column: an integer (t = "int"), the same
\* number in a float64 column ("float"), NaN ("nan"), or no such column.
IntCell(n) == [t |-> "int", v |-> n]
FloatCell(n) == [t |-> "float", v |-> n]
NaNCell == [t |-> "nan", v |-> 0]
NoCell == [t |-> "unset", v |-> 0]

RawFields == {"latitudeE7", "longitudeE7", "timestampMs"}

Raw(lat, lon, ts) == [latitudeE7 |-> lat, longitudeE7 |-> lon, timestampMs |-> ts]

\* Does the JSON object r hold the key c?
HasKey(r, c) ==
    CASE c = "latitudeE7" -> ~r.latitudeE7.nan
      [] c = "longitudeE7" -> ~r.longitudeE7.nan
      [] c = "timestampMs" -> r.timestampMs.kind # "nan"

-----------------------------------------------------------------------------
(* DataFrames.                                                             *)

\* A row of the frame: its index label and one cell per column.
Row(i, lat, lon, ts) ==
    [idx |-> i, latitudeE7 |-> lat, longitudeE7 |-> lon, timestampMs |-> ts,
     year |-> NoCell, month |-> NoCell, day |-> NoCell, hour |-> NoCell,
     min |-> NoCell, sec |-> NoCell, timestamp_string |-> ""]

Frame(cols, rows) == [cols |-> cols, rows |-> rows]

\* The place of an object that does not exist.
NoFrame == Frame({}, <<>>)

\* What a method hands back: the exception it raised ("none": it returned)
\* and the frame as the method left it.
Outcome(err, df) == [err |-> err, df |-> df]

-----------------------------------------------------------------------------
(* _ReadJson, lines 16-30.                                                 *)

\* json_data['locations'] raises KeyError when the document has no such key.
\* DataFrame.from_dict gives one row per object, labelled 0, 1, ..., and one
\* column per key that some object holds (NaN where an object lacks it);
\* filter(items=...) keeps the three raw columns that exist.
ReadJson(d) ==
    IF ~d.hasLocations
    THEN Outcome("KeyError", NoFrame)
    ELSE Outcome("none",
            Frame({c \in RawFields : \E i \in 1..Len(d.locations) : HasKey(d.locations[i], c)},
                  [i \in 1..Len(d.locations) |->
                      Row(i - 1, d.locations[i].latitudeE7, d.locations[i].longitudeE7,
                          d.locations[i].timestampMs)]))

-----------------------------------------------------------------------------
(* _DeriveTimeIntervals, lines 32-56.                                      *)

\* pd.to_datetime(..., unit='ms') and the .dt accessors: the proleptic
\* Gregorian date of day number z (day 0 is 1970-01-01), with no timezone.
CivilFromDays(z0) ==
    LET z == z0 + 719468
        era == z \div 146097
        doe == z % 146097
        yoe == (doe - (doe \div 1460) + (doe \div 36524) - (doe \div 146096)) \div 365
        doy == doe - (365 * yoe + (yoe \div 4) - (yoe \div 100))
        mp == (5 * doy + 2) \div 153
        d == doy - ((153 * mp + 2) \div 5) + 1
        m == IF mp < 10 THEN mp + 3 ELSE mp - 9
        y == yoe + era * 400 + (IF m <= 2 THEN 1 ELSE 0)
    IN  [year |-> y, month |-> m, day |-> d]

\* The calendar fields of the instant ts (a "num" timestamp).
DateTime(ts) ==
    LET date == CivilFromDays(ts.s \div 86400)
        sod == ts.s % 86400
    IN  [year |-> date.year, month |-> date.month, day |-> date.day,
         hour |-> sod \div 3600, min |-> (sod % 3600) \div 60, sec |-> sod % 60]

Digit(d) ==
    CASE d = 0 -> "0" [] d = 1 -> "1" [] d = 2 -> "2" [] d = 3 -> "3" [] d = 4 -> "4"
      [] d = 5 -> "5" [] d = 6 -> "6" [] d = 7 -> "7" [] d = 8 -> "8" [] d = 9 -> "9"

RECURSIVE Str(_)
\* str(n) of an integer n >= 0: its decimal digits, no padding.
Str(n) == IF n < 10 THEN Digit(n) ELSE Str(n \div 10) \o Digit(n % 10)

\* .astype(str) of a cell: an integer column gives "5", a float64 column
\* gives "5.0", and NaN gives "nan".
CellStr(c) ==
    CASE c.t = "int" -> Str(c.v)
      [] c.t = "float" -> Str(c.v) \o ".0"
      [] OTHER -> "nan"

\* A .dt accessor's column: int64 when every timestamp is there; when some
\* timestamp is NaT the whole column is float64 and that row's cell is NaN.
DtCell(ts, hasna, n) ==
    IF ts.kind = "nan" THEN NaNCell ELSE IF hasna THEN FloatCell(n) ELSE IntCell(n)

TimeColumns == {"year", "month", "day", "hour", "min", "sec", "timestamp_string"}

\* json_df['timestampMs'] raises KeyError when no record had the key;
\* to_datetime raises ValueError on a string that is no number and maps an
\* absent value to NaT.  The columns are added to json_df itself.
DeriveTimeIntervals(df) ==
    IF "timestampMs" \notin df.cols
    THEN Outcome("KeyError", df)
    ELSE IF \E i \in 1..Len(df.rows) : df.rows[i].timestampMs.kind = "str"
    THEN Outcome("ValueError", df)
    ELSE LET hasna == \E i \in 1..Len(df.rows) : df.rows[i].timestampMs.kind = "nan"
             Derived(r) ==
                LET dt == DateTime(r.timestampMs)
                    c(n) == DtCell(r.timestampMs, hasna, n)
                IN  [r EXCEPT !.year = c(dt.year), !.month = c(dt.month),
                              !.day = c(dt.day), !.hour = c(dt.hour),
                              !.min = c(dt.min), !.sec = c(dt.sec),
                              !.timestamp_string =
                                  CellStr(c(dt.month)) \o "/" \o CellStr(c(dt.day)) \o "/"
                                  \o CellStr(c(dt.year)) \o " "
                                  \o CellStr(c(dt.hour)) \o ":" \o CellStr(c(dt.min))]
         IN  Outcome("none",
                Frame(df.cols \cup TimeColumns,
                      [i \in 1..Len(df.rows) |-> Derived(df.rows[i])]))

-----------------------------------------------------------------------------
(* _FixLatLong, lines 58-69.                                               *)

TenMillion == 10000000

\* A slip: the division applied a second time.
RescaleTwice(x) ==
    IF x.nan THEN x ELSE [x EXCEPT !.den = Append(Append(@, TenMillion), TenMillion)]

\* x / 10000000 of a column cell; NaN stays NaN.
Rescale(x) == IF x.nan THEN x ELSE [x EXCEPT !.den = Append(@, TenMillion)]

\* Line 67 rescales latitudeE7 in place, then line 68 longitudeE7; either
\* raises KeyError when no record had the key, line 68 after line 67 has
\* already changed the frame.
FixLatLong(df) ==
    IF "latitudeE7" \notin df.cols
    THEN Outcome("KeyError", df)
    ELSE LET lat == Frame(df.cols,
                      [i \in 1..Len(df.rows) |->
                          [df.rows[i] EXCEPT !.latitudeE7 = Rescale(@)]])
         IN  IF "longitudeE7" \notin df.cols
             THEN Outcome("KeyError", lat)
             ELSE Outcome("none",
                     Frame(lat.cols,
                           [i \in 1..Len(lat.rows) |->
                               [lat.rows[i] EXCEPT !.longitudeE7 = Rescale(@)]]))

-----------------------------------------------------------------------------
(* Filter, lines 119-125, and ClearFilter, lines 127-129.                  *)

\* A Filter argument: a numpy array of dtype bool (kind "array"), a Python
\* list of bool (kind "list"), or a boolean Series (kind "series": bits[i]
\* is the value at index label labels[i]).
ArrayMask(bits) == [kind |-> "array", bits |-> bits, labels |-> <<>>]
ListMask(bits) == [kind |-> "list", bits |-> bits, labels |-> <<>>]
SeriesMask(labels, bits) == [kind |-> "series", bits |-> bits, labels |-> labels]

RECURSIVE TakeNot(_, _)
\* A slip: the rows where the mask is false.
TakeNot(rows, keep) ==
    IF rows = <<>> THEN <<>>
    ELSE (IF Head(keep) THEN <<>> ELSE <<Head(rows)>>) \o TakeNot(Tail(rows), Tail(keep))

RECURSIVE Take(_, _)
\* The rows of `rows` at the positions where keep is true, in order.
Take(rows, keep) ==
    IF rows = <<>> THEN <<>>
    ELSE (IF Head(keep) THEN <<Head(rows)>> ELSE <<>>) \o Take(Tail(rows), Tail(keep))

\* The value a boolean Series holds at index label l.
AtLabel(m, l) == m.bits[CHOOSE j \in 1..Len(m.labels) : m.labels[j] = l]

\* A slip: a boolean array of another length is cut or filled with False.
LocLenient(df, m) ==
    IF m.kind \in {"array", "list"}
    THEN Outcome("none",
            Frame(df.cols,
                  Take(df.rows, [i \in 1..Len(df.rows) |-> i <= Len(m.bits) /\ m.bits[i]])))
    ELSE IF \E i \in 1..Len(df.rows) :
                \A j \in 1..Len(m.labels) : m.labels[j] # df.rows[i].idx
         THEN Outcome("IndexingError", df)
         ELSE Outcome("none",
                 Frame(df.cols,
                       Take(df.rows, [i \in 1..Len(df.rows) |-> AtLabel(m, df.rows[i].idx)])))

\* df.loc[mask, :].  A boolean array, or a list that holds booleans, must be
\* as long as the frame, or pandas raises IndexError; the empty list holds
\* no boolean and is read as an empty list of labels, which selects no row.
\* A boolean Series is aligned with the frame's index labels: a Series that
\* lacks a label of the frame raises IndexingError (not a subclass of
\* IndexError), and one that holds them all selects by label, whatever its
\* length.  The result is a new frame.
Loc(df, m) ==
    IF m.kind = "list" /\ m.bits = <<>>
    THEN Outcome("none", Frame(df.cols, <<>>))
    ELSE IF m.kind \in {"array", "list"}
    THEN IF Len(m.bits) # Len(df.rows)
         THEN Outcome("IndexError", df)
         ELSE Outcome("none", Frame(df.cols, Take(df.rows, m.bits)))
    ELSE IF \E i \in 1..Len(df.rows) :
                \A j \in 1..Len(m.labels) : m.labels[j] # df.rows[i].idx
         THEN Outcome("IndexingError", df)
         ELSE Outcome("none",
                 Frame(df.cols,
                       Take(df.rows, [i \in 1..Len(df.rows) |-> AtLabel(m, df.rows[i].idx)])))

-----------------------------------------------------------------------------
(* _SetScatterData, lines 71-87, and _SetLayout, lines 89-117.             *)

NoScatter == [set |-> FALSE, lat |-> <<>>, lon |-> <<>>, text |-> <<>>, mode |-> ""]
NoCenter == [lat |-> NaNCoord, lon |-> NaNCoord]
NoLayout == [set |-> FALSE, center |-> NoCenter, zoom |-> 0, style |-> ""]
\* self.fig = None
NoFig == [set |-> FALSE, data |-> NoScatter, layout |-> NoLayout]

\* go.Scattermapbox over three columns of self.data.
SetScatterData(df) ==
    [set |-> TRUE,
     lat |-> [i \in 1..Len(df.rows) |-> df.rows[i].latitudeE7],
     lon |-> [i \in 1..Len(df.rows) |-> df.rows[i].longitudeE7],
     text |-> [i \in 1..Len(df.rows) |-> df.rows[i].timestamp_string],
     mode |-> "markers"]

\* A slip: the lower of the two middle positions of an even length.
CenterPosLow(n) == ((n - 1) \div 2) + 1

\* start_lats[int(len(start_lats)/2)]: the 0-based position int(n/2), which
\* numpy refuses with IndexError when the array is empty.
CenterPos(n) == (n \div 2) + 1

SetLayout(df) ==
    IF Len(df.rows) = 0
    THEN [err |-> "IndexError", layout |-> NoLayout]
    ELSE [err |-> "none",
          layout |-> [set |-> TRUE,
                      center |-> [lat |-> df.rows[CenterPos(Len(df.rows))].latitudeE7,
                                  lon |-> df.rows[CenterPos(Len(df.rows))].longitudeE7],
                      zoom |-> 7, style |-> "outdoors"]]

-----------------------------------------------------------------------------
(* The inputs.                                                             *)

\* The kinds of record a document of the model holds.
RawRecords ==
    { Raw(Coord(377749000), Coord(-1224194000), Ms(1609459200, 0)),
      Raw(Coord(-338688000), Coord(1512093000), Ms(1583020799, 999)),
      Raw(Coord(515074000), Coord(-1278000), Ms(-1, 999)),
      Raw(Coord(488566000), Coord(23522000), NoTs),
      Raw(Coord(356762000), Coord(1396503000), BadTs),
      Raw(NaNCoord, Coord(-740060000), Ms(1614834367, 0)),
      Raw(Coord(407128000), NaNCoord, Ms(1574531130, 500)) }

\* The i-th record of a long well-formed document.
LongRaw(i) ==
    Raw(Coord(377749000 + 10000 * i), Coord(-1224194000 - 20000 * i),
        Ms(1609459200 + 2768461 * i, 111 * i))

SeqsUpTo(S, n) == UNION {[1..k -> S] : k \in 0..n}

Doc(locations) == [hasLocations |-> TRUE, locations |-> locations]
NoLocationsDoc == [hasLocations |-> FALSE, locations |-> <<>>]

\* A well-formed document of n pairwise different records.
LongDoc(n) == Doc([i \in 1..n |-> LongRaw(i)])

\* The documents construction is checked on.
LoadDocs ==
    {NoLocationsDoc} \cup {Doc(l) : l \in SeqsUpTo(RawRecords, MaxRecords)}

\* The documents the calls are checked on.
Docs ==
    {NoLocationsDoc}
    \cup {Doc(l) : l \in SeqsUpTo(RawRecords, MaxShort)}
    \cup {LongDoc(n) : n \in 0..MaxLong}

\* A boolean array of n elements given by a rule on the position.
Pattern(p, n) ==
    [i \in 1..n |->
        CASE p = "all" -> TRUE
          [] p = "none" -> FALSE
          [] p = "odd" -> i % 2 = 1
          [] p = "notfirst" -> i # 1]

Patterns == {"all", "none", "odd", "notfirst"}

RECURSIVE Ascending(_)
\* The elements of a finite set of integers in ascending order.
Ascending(S) ==
    IF S = {} THEN <<>>
    ELSE LET lo == CHOOSE x \in S : \A y \in S : x <= y
         IN  <<lo>> \o Ascending(S \ {lo})

Masks ==
    {ArrayMask(b) : b \in SeqsUpTo(BOOLEAN, MaxMaskLen)}
    \cup {ListMask(b) : b \in SeqsUpTo(BOOLEAN, MaxMaskLen)}
    \cup {ArrayMask(Pattern(p, n)) : p \in Patterns, n \in (MaxMaskLen + 1)..(MaxLong + 1)}
    \cup UNION {{SeriesMask(Ascending(L), b) : b \in [1..Cardinality(L) -> BOOLEAN]} :
                    L \in SUBSET (0..(MaxMaskLen - 1))}
    \cup {SeriesMask([i \in 1..n |-> i - 1], Pattern(p, n)) :
                    p \in Patterns, n \in (MaxMaskLen + 1)..(MaxLong + 1)}

-----------------------------------------------------------------------------
(* The object.                                                             *)

Call(op, err, ret) == [op |-> op, err |-> err, ret |-> ret]

Start ==
    /\ pc = "start"
    /\ frames = [o \in 1..2 |-> NoFrame]
    /\ data = 0
    /\ originaldata = 0
    /\ fig = NoFig
    /\ scatterdata = NoScatter
    /\ layout = NoLayout
    /\ last = Call("none", "none", NoFig)

Init == doc \in Docs /\ Start

InitLoad == doc \in LoadDocs /\ Start

\* __init__, lines 9-14.  Line 10 binds self.data to the frame _ReadJson
\* built (object 1); lines 11 and 12 change that object in place; an
\* exception leaves the constructor at once, and the caller gets no object.
Construct ==
    /\ pc = "start"
    /\ LET read == ReadJson(doc)
           time == DeriveTimeIntervals(read.df)
           fix == FixLatLong(time.df)
           err == IF read.err # "none" THEN read.err
                  ELSE IF time.err # "none" THEN time.err
                  ELSE fix.err
       IN  /\ pc' = IF err = "none" THEN "ready" ELSE "failed"
           /\ data' = IF read.err = "none" THEN 1 ELSE 0
           /\ frames' = [frames EXCEPT ![1] =
                            IF read.err # "none" THEN NoFrame
                            ELSE IF time.err # "none" THEN time.df
                            ELSE fix.df]
           /\ originaldata' = IF err = "none" THEN 1 ELSE 0
           /\ last' = Call("__init__", err, NoFig)
    /\ UNCHANGED <<doc, fig, scatterdata, layout>>

\* A slip: the rows are dropped from the frame self.data names, in place.
FilterInPlace(m) ==
    /\ pc = "ready"
    /\ LET r == Loc(frames[data], m)
       IN  /\ frames' = IF r.err = "none" THEN [frames EXCEPT ![data] = r.df] ELSE frames
           /\ last' = Call("Filter", r.err, NoFig)
    /\ UNCHANGED <<doc, pc, data, originaldata, fig, scatterdata, layout>>

\* Filter: self.data = self.data.loc[filter, :].  The right-hand side is
\* evaluated first, so an exception leaves self.data bound as it was; on
\* success self.data is bound to the new frame (object 2) and the frame it
\* was bound to is dropped unless self._originaldata still names it.
Filter(m) ==
    /\ pc = "ready"
    /\ LET r == Loc(frames[data], m)
       IN  /\ frames' = IF r.err = "none" THEN [frames EXCEPT ![2] = r.df] ELSE frames
           /\ data' = IF r.err = "none" THEN 2 ELSE data
           /\ last' = Call("Filter", r.err, NoFig)
    /\ UNCHANGED <<doc, pc, originaldata, fig, scatterdata, layout>>

\* A slip: the assignment the other way round.
ClearFilterReversed ==
    /\ pc = "ready"
    /\ originaldata' = data
    /\ last' = Call("ClearFilter", "none", NoFig)
    /\ UNCHANGED <<doc, pc, frames, data, fig, scatterdata, layout>>

\* ClearFilter: self.data = self._originaldata.
ClearFilter ==
    /\ pc = "ready"
    /\ data' = originaldata
    /\ frames' = [frames EXCEPT ![2] = IF originaldata = 2 THEN @ ELSE NoFrame]
    /\ last' = Call("ClearFilter", "none", NoFig)
    /\ UNCHANGED <<doc, pc, originaldata, fig, scatterdata, layout>>

\* A slip: the point layer drawn from self._originaldata.
PlotMapOfSnapshot(shown) ==
    /\ pc = "ready"
    /\ LET df == frames[data]
           sl == SetLayout(df)
           err == IF sl.err # "none" THEN sl.err
                  ELSE IF ~shown THEN "RendererError" ELSE "none"
           f == [set |-> TRUE, data |-> SetScatterData(frames[originaldata]),
                 layout |-> sl.layout]
       IN  /\ scatterdata' = SetScatterData(frames[originaldata])
           /\ layout' = IF sl.err = "none" THEN sl.layout ELSE layout
           /\ fig' = IF err = "none" THEN f ELSE fig
           /\ last' = Call("PlotMap", err, IF err = "none" THEN f ELSE NoFig)
    /\ UNCHANGED <<doc, pc, frames, data, originaldata>>

\* A slip: _SetLayout called before _SetScatterData.
PlotMapLayoutFirst(shown) ==
    /\ pc = "ready"
    /\ LET df == frames[data]
           sl == SetLayout(df)
           err == IF sl.err # "none" THEN sl.err
                  ELSE IF ~shown THEN "RendererError" ELSE "none"
           f == [set |-> TRUE, data |-> SetScatterData(df), layout |-> sl.layout]
       IN  /\ scatterdata' = IF sl.err = "none" THEN SetScatterData(df) ELSE scatterdata
           /\ layout' = IF sl.err = "none" THEN sl.layout ELSE layout
           /\ fig' = IF err = "none" THEN f ELSE fig
           /\ last' = Call("PlotMap", err, IF err = "none" THEN f ELSE NoFig)
    /\ UNCHANGED <<doc, pc, frames, data, originaldata>>

\* PlotMap, lines 132-178: _SetScatterData, then _SetLayout, then the
\* figure is built and shown, and only then stored and returned.  fig.show
\* is the external renderer: it returns (shown) or raises.
PlotMap(shown) ==
    /\ pc = "ready"
    /\ LET df == frames[data]
           sl == SetLayout(df)
           err == IF sl.err # "none" THEN sl.err
                  ELSE IF ~shown THEN "RendererError" ELSE "none"
           f == [set |-> TRUE, data |-> SetScatterData(df), layout |-> sl.layout]
       IN  /\ scatterdata' = SetScatterData(df)
           /\ layout' = IF sl.err = "none" THEN sl.layout ELSE layout
           /\ fig' = IF err = "none" THEN f ELSE fig
           /\ last' = Call("PlotMap", err, IF err = "none" THEN f ELSE NoFig)
    /\ UNCHANGED <<doc, pc, frames, data, originaldata>>

Next ==
    \/ Construct
    \/ \E m \in Masks : Filter(m)
    \/ ClearFilter
    \/ \E shown \in BOOLEAN : PlotMap(shown)

Spec == Init /\ [][Next]_vars

\* Construction, Filter and ClearFilter, with no PlotMap call.
NextFilter ==
    \/ Construct
    \/ \E m \in Masks : Filter(m)
    \/ ClearFilter

SpecFilter == Init /\ [][NextFilter]_vars

\* Construction alone, on the wide family of documents.
SpecLoad == InitLoad /\ [][Construct]_vars

-----------------------------------------------------------------------------
(* What the properties speak of.                                           *)

\* The current view and the original snapshot, as sequences of rows.
View == frames[data].rows
Snapshot == frames[originaldata].rows

\* The frame construction builds from the document.
Loaded == FixLatLong(DeriveTimeIntervals(ReadJson(doc).df).df).df

\* The rows of `rows` at the positions where bits is true, by position.
PickTrue(rows, bits) ==
    LET pos == Ascending({i \in 1..Len(bits) : bits[i]})
    IN  [k \in 1..Len(pos) |-> rows[pos[k]]]

\* The raw coordinate x of the document, divided once by 10,000,000.
FixedOnce(x) == IF x.nan THEN x ELSE [nan |-> FALSE, num |-> x.num, den |-> <<10000000>>]

-----------------------------------------------------------------------------
(* C1.  After any sequence of Filter, ClearFilter and PlotMap calls, a     *)
(* ClearFilter call leaves the current view equal to the frame that        *)
(* construction built: the same records, in the same order, with the same  *)
(* values.  Every ClearFilter call ends in that one view, so a second call *)
(* gives what the first gave.                                              *)
C1_ClearFilterRestores ==
    last.op = "ClearFilter" =>
        /\ frames[data] = Loaded
        /\ \A i \in 1..Len(View) : View[i].idx = i - 1

\* ClearFilter after a figure was drawn from a narrowed view.
C1_Witness ==
    /\ last.op = "ClearFilter"
    /\ fig.set
    /\ Len(fig.data.lat) < Len(View)

(* C4.  The original snapshot is the frame construction built, in every    *)
(* state the caller can see, and the current view is an order-preserving   *)
(* sub-sequence of it: its rows are rows of the snapshot, unchanged, in    *)
(* ascending snapshot position.                                            *)
C4_SnapshotImmutable ==
    pc = "ready" =>
        /\ originaldata = 1
        /\ frames[originaldata] = Loaded
        /\ frames[data].cols = Loaded.cols
        /\ \A i \in 1..Len(View) :
              /\ View[i].idx + 1 \in 1..Len(Snapshot)
              /\ View[i] = Snapshot[View[i].idx + 1]
        /\ \A i \in 1..(Len(View) - 1) : View[i].idx < View[i + 1].idx

\* A narrowed view that does not start at the snapshot's first record.
C4_Witness ==
    /\ pc = "ready"
    /\ data = 2
    /\ Len(View) > 1
    /\ Len(View) < Len(Snapshot)
    /\ View[1].idx # 0
    /\ fig.set

(* C5.  In every state the caller can see, the latitudeE7 and longitudeE7  *)
(* of every record of the current view and of the snapshot is the raw      *)
(* integer of that record in the document divided by 10,000,000 once: not  *)
(* the raw integer, and not divided twice.                                 *)
C5_CoordinatesFixedOnce ==
    pc = "ready" =>
        \A rows \in {View, Snapshot} : \A i \in 1..Len(rows) :
            LET raw == doc.locations[rows[i].idx + 1]
            IN  /\ rows[i].latitudeE7 = FixedOnce(raw.latitudeE7)
                /\ rows[i].longitudeE7 = FixedOnce(raw.longitudeE7)

\* The record of the spec's example, 377749000 / -1224194000, in a view
\* that a Filter call built, with a figure drawn.
C5_Witness ==
    /\ pc = "ready"
    /\ data = 2
    /\ fig.set
    /\ \E i \in 1..Len(View) :
          /\ View[i].latitudeE7 = [nan |-> FALSE, num |-> 377749000, den |-> <<10000000>>]
          /\ View[i].longitudeE7 = [nan |-> FALSE, num |-> -1224194000, den |-> <<10000000>>]

(* C6.  The layout PlotMap builds for a view of n records is centred on    *)
(* the latitude and longitude of the one record at position floor(n/2) of  *)
(* the view, counted from 0 in the view: the position p with               *)
(* 2p <= n <= 2p + 1, which is 2 for a view of 5 and 2 for a view of 4.    *)
(* The record is taken from the current view, whatever its index label.    *)
C6_CentreIsMidpointRecord ==
    (last.op = "PlotMap" /\ last.err # "IndexError") =>
        /\ layout.set
        /\ \E p \in 0..(Len(View) - 1) :
              /\ 2 * p <= Len(View)
              /\ Len(View) <= 2 * p + 1
              /\ layout.center.lat = View[p + 1].latitudeE7
              /\ layout.center.lon = View[p + 1].longitudeE7
        /\ Len(View) \in {4, 5} =>
              /\ layout.center.lat = View[3].latitudeE7
              /\ layout.center.lon = View[3].longitudeE7
        /\ last.err = "none" => fig.layout = layout

\* A figure drawn from a narrowed view of 4 records whose labels are 1..4.
C6_Witness ==
    /\ last.op = "PlotMap"
    /\ last.err = "none"
    /\ Len(View) = 4
    /\ View[1].idx = 1
    /\ layout.center.lat = Snapshot[4].latitudeE7

(* C9.  A PlotMap call that returns builds the point layer from the view   *)
(* current at the call: one point per record of the view, in view order,   *)
(* at the record's latitude and longitude, labelled with the record's      *)
(* display timestamp.  It leaves the view and the snapshot as they were,   *)
(* stores the figure in self.fig and returns that figure.                  *)
C9_PlotMapDrawsCurrentView ==
    [][(last'.op = "PlotMap" /\ last'.err = "none") =>
          /\ fig'.set
          /\ Len(fig'.data.lat) = Len(View)
          /\ Len(fig'.data.lon) = Len(View)
          /\ Len(fig'.data.text) = Len(View)
          /\ \A i \in 1..Len(View) :
                /\ fig'.data.lat[i] = View[i].latitudeE7
                /\ fig'.data.lon[i] = View[i].longitudeE7
                /\ fig'.data.text[i] = View[i].timestamp_string
          /\ scatterdata' = fig'.data
          /\ last'.ret = fig'
          /\ UNCHANGED <<frames, data, originaldata>>]_vars

\* A figure drawn from a view narrower than the snapshot.
C9_Witness ==
    /\ last.op = "PlotMap"
    /\ last.err = "none"
    /\ data = 2
    /\ Len(View) > 0
    /\ Len(View) < Len(Snapshot)
    /\ Len(fig.data.lat) = Len(View)

(* C10.  PlotMap on an empty view raises IndexError in _SetLayout, after   *)
(* self.scatterdata has been overwritten with an empty point layer:        *)
(* nothing is returned, self.fig and self.layout keep their values, and    *)
(* the view and the snapshot are as before.  After a ClearFilter call the  *)
(* view is not empty, and a PlotMap call whose renderer returns then       *)
(* succeeds and draws every record of the snapshot.                        *)
C10_PlotMapOnEmptyView ==
    [][/\ (last'.op = "PlotMap" /\ Len(View) = 0) =>
             /\ last'.err = "IndexError"
             /\ last'.ret = NoFig
             /\ scatterdata'.set
             /\ scatterdata'.lat = <<>>
             /\ fig' = fig
             /\ layout' = layout
             /\ UNCHANGED <<frames, data, originaldata>>
       /\ (last.op = "ClearFilter" /\ PlotMap(TRUE)) =>
             /\ Len(View) > 0
             /\ last'.err = "none"
             /\ fig'.set
             /\ last'.ret = fig'
             /\ Len(fig'.data.lat) = Len(Snapshot)]_vars

\* PlotMap has failed on an empty view while an earlier figure is kept.
C10_Witness ==
    /\ last.op = "PlotMap"
    /\ last.err = "IndexError"
    /\ Len(View) = 0
    /\ fig.set
    /\ Len(fig.data.lat) > 0
    /\ scatterdata.set
    /\ scatterdata.lat = <<>>

-----------------------------------------------------------------------------
(* Filter.                                                                 *)

\* The index labels of a sequence of rows, and of a boolean Series.
RowLabels(rows) == [i \in 1..Len(rows) |-> rows[i].idx]
Covers(m, rows) ==
    {rows[i].idx : i \in 1..Len(rows)} \subseteq {m.labels[j] : j \in 1..Len(m.labels)}

C3_SameLengthMaskSelects ==
    [][\A m \in Masks :
          (Filter(m) /\ Len(m.bits) = Len(View)) =>
              /\ last'.err = "none"
              /\ frames'[data'].rows = PickTrue(View, m.bits)]_vars

(* C3, amended.  A Filter call with a boolean array or list of the length  *)
(* of the current view, or with a boolean Series whose index labels are    *)
(* those of the current view, replaces the view with the records of it at  *)
(* the positions where the mask is true, in their order, in a new frame    *)
(* with the same columns; the snapshot is as it was.  The mask is applied  *)
(* to the view as narrowed so far: every record of the new view was in the *)
(* view before the call.                                                   *)
C3_AlignedMaskSelects ==
    [][\A m \in Masks :
          (/\ Filter(m)
           /\ \/ (m.kind \in {"array", "list"} /\ Len(m.bits) = Len(View))
              \/ (m.kind = "series" /\ m.labels = RowLabels(View))) =>
              /\ last'.err = "none"
              /\ data' = 2
              /\ frames'[2].rows = PickTrue(View, m.bits)
              /\ frames'[2].cols = frames[data].cols
              /\ frames'[1] = frames[1]
              /\ originaldata' = originaldata
              /\ \A k \in 1..Len(frames'[2].rows) :
                    \E i \in 1..Len(View) : frames'[2].rows[k] = View[i]]_vars

\* The second of two Filter calls has left the records labelled 2 and 4.
C3_Witness ==
    /\ last.op = "Filter"
    /\ last.err = "none"
    /\ data = 2
    /\ Len(Snapshot) = 5
    /\ RowLabels(View) = <<2, 4>>

-----------------------------------------------------------------------------
(* Construction.                                                           *)

\* The exceptions of the code that the spec's FormatError stands for.
FormatErrors == {"KeyError", "ValueError"}

\* No record of the document holds the key c.
FieldAbsent(d, c) == \A i \in 1..Len(d.locations) : ~HasKey(d.locations[i], c)

\* The document lacks "locations", or a required field, or some record of
\* it has a missing or a non-numeric timestamp.
Malformed(d) ==
    \/ ~d.hasLocations
    \/ \E c \in RawFields : FieldAbsent(d, c)
    \/ \E i \in 1..Len(d.locations) : d.locations[i].timestampMs.kind # "num"

(* C7, as stated.  Construction from a document that lacks the "locations" *)
(* key, or a required field, or in which some record has a missing or a    *)
(* non-numeric timestamp, fails with a FormatError, and the caller gets no *)
(* dataset.                                                                *)
C7_MalformedDocumentRejected ==
    (pc # "start" /\ Malformed(doc)) =>
        /\ pc = "failed"
        /\ last.err \in FormatErrors
        /\ originaldata = 0

\* C7, as far as the code goes: construction fails, with KeyError or
\* ValueError, exactly when the document lacks "locations", or no record
\* holds one of the three fields, or some timestamp is a non-numeric
\* string; and a dataset handed to the caller has every column, with the
\* coordinates rescaled.
C7_WhatConstructionRejects ==
    pc # "start" =>
        /\ pc = "failed" <=>
              \/ ~doc.hasLocations
              \/ \E c \in RawFields : FieldAbsent(doc, c)
              \/ \E i \in 1..Len(doc.locations) : doc.locations[i].timestampMs.kind = "str"
        /\ pc = "failed" => (last.err \in FormatErrors /\ originaldata = 0)
        /\ pc = "ready" =>
              /\ last.err = "none"
              /\ frames[data].cols = RawFields \cup TimeColumns
              /\ \A i \in 1..Len(View) :
                    View[i].latitudeE7 = FixedOnce(doc.locations[i].latitudeE7)

\* What the calendar gives for the timestamps of the model's documents.
Fields(y, mo, d, h, mi, sec, text) ==
    [year |-> y, month |-> mo, day |-> d, hour |-> h, min |-> mi, sec |-> sec, text |-> text]

UtcFields(s) ==
    CASE s = 1609459200 -> Fields(2021, 1, 1, 0, 0, 0, "1/1/2021 0:0")
      [] s = 1583020799 -> Fields(2020, 2, 29, 23, 59, 59, "2/29/2020 23:59")
      [] s = -1 -> Fields(1969, 12, 31, 23, 59, 59, "12/31/1969 23:59")
      [] s = 1614834367 -> Fields(2021, 3, 4, 5, 6, 7, "3/4/2021 5:6")
      [] s = 1574531130 -> Fields(2019, 11, 23, 17, 45, 30, "11/23/2019 17:45")

\* The row r carries the UTC calendar fields of its timestamp and the
\* unpadded display string.
DerivedRight(r) ==
    LET e == UtcFields(r.timestampMs.s)
    IN  /\ \A c \in {r.year, r.month, r.day, r.hour, r.min, r.sec} : c.t \in {"int", "float"}
        /\ r.year.v = e.year
        /\ r.month.v = e.month
        /\ r.day.v = e.day
        /\ r.hour.v = e.hour
        /\ r.min.v = e.min
        /\ r.sec.v = e.sec
        /\ r.timestamp_string = e.text

(* C8, as stated.  Every record of a constructed dataset carries the UTC   *)
(* calendar fields of its timestampMs, read as epoch milliseconds, and a   *)
(* display string month/day/year hour:minute of their decimal values with  *)
(* no zero padding: 1609459200000 gives 2021, 1, 1, 0, 0, 0 and            *)
(* "1/1/2021 0:0".                                                         *)
C8_TimeDerivation ==
    pc = "ready" =>
        \A i \in 1..Len(Snapshot) :
            Snapshot[i].timestampMs.kind = "num" => DerivedRight(Snapshot[i])

\* C8 on the documents in which every record has a timestamp: there the
\* fields are integers and every record is derived as stated.
C8_TimeDerivationOfCompleteDocuments ==
    (pc = "ready" /\ \A i \in 1..Len(doc.locations) : doc.locations[i].timestampMs.kind = "num") =>
        \A i \in 1..Len(Snapshot) :
            /\ DerivedRight(Snapshot[i])
            /\ Snapshot[i].year.t = "int"

====
